---- MODULE Spec2Model ----
(***************************************************************************)
(* Model of the RIPS validation engine of src/validador.py: the rule       *)
(* primitives of RIPSValidator, the nine record validators and             *)
(* RIPSProcessor.process.                                                  *)
(*                                                                         *)
(* Encoding of Python values.                                              *)
(*   - A text column holds a TLA+ string, or None (SQL NULL, which pandas  *)
(*     returns as None for object columns).  None is the reserved string   *)
(*     below; no table of the model stores it as text.                     *)
(*   - A numeric column holds <<n>> (the number n) or <<>> (NULL, which    *)
(*     pandas returns as NaN).  Weights are in tenths, so the source's     *)
(*     min_value=0.1 is 1 here.                                            *)
(*   - An optional numeric argument (min_value, max_value) is <<>> when    *)
(*     it is None and <<m>> otherwise.                                     *)
(*   - The Descripcion text of an outcome is not modelled; every other     *)
(*     attribute of ValidationResult is.                                   *)
(*                                                                         *)
(* The module also models the browse window of                             *)
(* src/Query_GUI_SQL-server.py (DatabaseSearcherApp and its QueryWorker    *)
(* threads): the three buttons, the page counter, the status label and the *)
(* workers whose signal has not been delivered yet.  The text of the query *)
(* and the cells of the result table are not modelled.                     *)
(***************************************************************************)
EXTENDS Integers, Sequences, FiniteSets, TLC

VARIABLES results, files, last, ncalls,
          engine, view_dropdown, search_button, prev_button, next_button,
          current_page, has_more_data, debug_label, workers, aborted

\* the state of the validation engine and the state of the browse window
engine_vars == <<results, files, last, ncalls>>

window_vars == <<engine, view_dropdown, search_button, prev_button, next_button,
                 current_page, has_more_data, debug_label, workers, aborted>>

vars == <<results, files, last, ncalls,
          engine, view_dropdown, search_button, prev_button, next_button,
          current_page, has_more_data, debug_label, workers, aborted>>

(***************************************************************************)
(* Bounds                                                                  *)
(***************************************************************************)
MaxCalls == 2

\* the workers in flight and the page number the model follows
MaxWorkers == 2
MaxPage == 3

(***************************************************************************)
(* The browse window as DatabaseSearcherApp.__init__ leaves it: no engine, *)
(* nothing selected, the three buttons disabled, page 1, no worker.        *)
(***************************************************************************)
DatabaseSearcherApp_init ==
    /\ engine = "None"
    /\ view_dropdown = ""
    /\ search_button = FALSE
    /\ prev_button = FALSE
    /\ next_button = FALSE
    /\ current_page = 1
    /\ has_more_data = FALSE
    /\ debug_label = "Esperando conexion..."
    /\ workers = <<>>
    /\ aborted = FALSE

(***************************************************************************)
(* ValidationResultType, ValidationResult                                  *)
(***************************************************************************)
None == "<None>"

NOTIFICATION == "NOTIFICACION"

REJECTION == "RECHAZO"

ValidationResult(result_type, code, field) ==
    [result_type |-> result_type, code |-> code, field |-> field, source |-> "RIPS"]

to_dict(r) ==
    [Clase |-> r.result_type, Codigo |-> r.code, Observaciones |-> r.field, Fuente |-> r.source]

(***************************************************************************)
(* RIPSValidator: catalogs and rule primitives.  A primitive takes the     *)
(* ledger (self.results) and returns its boolean together with the ledger  *)
(* it leaves behind.                                                       *)
(***************************************************************************)
catalogs(catalog) ==
    CASE catalog = "CUPS" -> {"890501", "890601"}
      [] catalog = "CIE10" -> {"E119", "J459"}
      [] catalog = "ATC" -> {"A10BA02"}
      [] catalog = "TIPO_DOCUMENTO" -> {"CC", "TI", "CE", "PA"}
      [] catalog = "TIPO_NOTA" -> {"SF", "RS"}
      [] catalog = "CONCEPTO_RECAUDO" -> {"01", "02", "03"}
      [] catalog = "VIA_INGRESO" -> {"01", "02", "03"}
      [] catalog = "CAUSA_EXTERNA" -> {"01", "02", "15"}
      [] catalog = "TIPO_OS" -> {"01", "02", "03"}
      [] OTHER -> {}

\* Python truth value of a text value: None and "" are false.
truthy(value) == value # None /\ value # ""

\* str.strip() on the text values of the model: the only values with
\* leading or trailing white space are the blank ones.
strip(s) == IF s \in {" ", "  "} THEN "" ELSE s

\* pd.isna on a text value.
isna(value) == value = None

\* re.match(regex, s) for the patterns of the model.
re_match(regex, s) ==
    CASE regex = "^[0-9]+$" -> s \in {"0", "1", "123456", "890501", "890601", "999999"}
      [] OTHER -> FALSE

\* mutant of validate_string: every failing check reports, none returns early
validate_string_reporting_all(ledger, value, field, max_length, required, regex) ==
    LET r1 == IF required /\ (value = None \/ strip(value) = "")
              THEN Append(ledger, ValidationResult(REJECTION, "ERR_" \o field \o "_001", field))
              ELSE ledger
        r2 == IF truthy(value) /\ Len(value) > max_length
              THEN Append(r1, ValidationResult(REJECTION, "ERR_" \o field \o "_002", field))
              ELSE r1
        r3 == IF truthy(value) /\ regex # None /\ ~re_match(regex, value)
              THEN Append(r2, ValidationResult(REJECTION, "ERR_" \o field \o "_003", field))
              ELSE r2
    IN [ret |-> r3 = ledger, results |-> r3]

validate_string(ledger, value, field, max_length, required, regex) ==
    IF required /\ (value = None \/ strip(value) = "")
    THEN [ret |-> FALSE,
          results |-> Append(ledger, ValidationResult(REJECTION, "ERR_" \o field \o "_001", field))]
    ELSE IF truthy(value) /\ Len(value) > max_length
    THEN [ret |-> FALSE,
          results |-> Append(ledger, ValidationResult(REJECTION, "ERR_" \o field \o "_002", field))]
    ELSE IF truthy(value) /\ regex # None /\ ~re_match(regex, value)
    THEN [ret |-> FALSE,
          results |-> Append(ledger, ValidationResult(REJECTION, "ERR_" \o field \o "_003", field))]
    ELSE [ret |-> TRUE, results |-> ledger]

\* mutant of validate_code: a code outside the catalog is a Rejection
validate_code_rejecting(ledger, value, field, catalog) ==
    IF truthy(value) /\ value \notin catalogs(catalog)
    THEN [ret |-> FALSE,
          results |-> Append(ledger, ValidationResult(REJECTION, "WARN_" \o field \o "_001", field))]
    ELSE [ret |-> TRUE, results |-> ledger]

validate_code(ledger, value, field, catalog) ==
    IF truthy(value) /\ value \notin catalogs(catalog)
    THEN [ret |-> FALSE,
          results |-> Append(ledger, ValidationResult(NOTIFICATION, "WARN_" \o field \o "_001", field))]
    ELSE [ret |-> TRUE, results |-> ledger]

\* datetime.strptime(s, "%Y-%m-%d %H:%M:%S") on the date texts of the model:
\* <<h>> is the parsed instant (hours since 2024-01-01 00:00:00), <<>> is
\* ValueError.
strptime(s) ==
    CASE s = "2024-01-05 08:00:00" -> <<104>>
      [] s = "2024-01-10 08:00:00" -> <<224>>
      [] s = "2024-01-10 09:30:00" -> <<225>>
      [] OTHER -> <<>>

\* mutant of validate_date: the format of a present value is not checked
validate_date_unparsed(ledger, value, field, required) ==
    IF required /\ (value = None \/ strip(value) = "")
    THEN [ret |-> FALSE,
          results |-> Append(ledger, ValidationResult(REJECTION, "ERR_" \o field \o "_001", field))]
    ELSE [ret |-> TRUE, results |-> ledger]

validate_date(ledger, value, field, required) ==
    IF required /\ (value = None \/ strip(value) = "")
    THEN [ret |-> FALSE,
          results |-> Append(ledger, ValidationResult(REJECTION, "ERR_" \o field \o "_001", field))]
    ELSE IF truthy(value) /\ strptime(value) = <<>>
    THEN [ret |-> FALSE,
          results |-> Append(ledger, ValidationResult(REJECTION, "ERR_" \o field \o "_004", field))]
    ELSE [ret |-> TRUE, results |-> ledger]

validate_number(ledger, value, field, min_value, max_value) ==
    IF value = <<>>
    THEN [ret |-> FALSE,
          results |-> Append(ledger, ValidationResult(REJECTION, "ERR_" \o field \o "_001", field))]
    ELSE IF min_value # <<>> /\ value[1] < min_value[1]
    THEN [ret |-> FALSE,
          results |-> Append(ledger, ValidationResult(REJECTION, "ERR_" \o field \o "_005", field))]
    ELSE IF max_value # <<>> /\ value[1] > max_value[1]
    THEN [ret |-> FALSE,
          results |-> Append(ledger, ValidationResult(REJECTION, "ERR_" \o field \o "_006", field))]
    ELSE [ret |-> TRUE, results |-> ledger]

(***************************************************************************)
(* Storage.  The backing data does not change while the engine runs: each  *)
(* table is a fixed sequence of rows, and pd.read_sql with a bound key     *)
(* selects the rows whose key column equals it (a NULL key equals          *)
(* nothing).  The rows cover, for every record type, a record with no      *)
(* finding, records with advisory findings only, records with blocking     *)
(* findings and (for the seven types that reference a beneficiary) a       *)
(* record whose beneficiary is missing from Usuarios.                      *)
(***************************************************************************)
read_sql(table, column, key) ==
    SelectSeq(table, LAMBDA row : key # None /\ row[column] = key)

\* the COUNT query on Usuarios by numDocumentoIdentificacion (pd.read_sql(...).iloc[0, 0])
count_sql(table, column, key) == Len(read_sql(table, column, key))

\* mutant of to_records: only the validated row is handed on
to_records_first(df) == << df[1] >>

\* df.to_dict(orient="records"): the rows as a list of plain mappings.
to_records(df) == df

\* mutant of step: the primitive is called without `valid &=`
step_unrecorded(c, r) == [valid |-> c.valid, results |-> r.results]

\* `valid &= <primitive>`: the running AND and the ledger after the call.
step(c, r) == [valid |-> c.valid /\ r.ret, results |-> r.results]

\* mutant of log: appending the advisory outcome also clears valid
log_blocking(c, outcome) == [valid |-> FALSE, results |-> Append(c.results, outcome)]

\* self.results.append(<outcome>) between two primitives.
log(c, outcome) == [c EXCEPT !.results = Append(@, outcome)]

\* mutant of reject: valid is set to False but the outcome is never appended
reject_unlogged(c, outcome) == [valid |-> FALSE, results |-> c.results]

\* a Rejection appended by the validator itself, followed by valid = False.
reject(c, outcome) == [valid |-> FALSE, results |-> Append(c.results, outcome)]

\* mutant of query_error: the exception is swallowed without an outcome
query_error_silent(ledger, code, reads) ==
    [valid |-> FALSE, records |-> <<>>, reads |-> reads, results |-> ledger]

\* the `except Exception` arm of every validate: one Rejection with the
\* type's query-error code, and (False, []).
query_error(ledger, code, reads) ==
    [valid |-> FALSE, records |-> <<>>, reads |-> reads,
     results |-> Append(ledger, ValidationResult(REJECTION, code, ""))]

\* the `if df.empty` arm of every validate.
not_found(ledger, code) ==
    [valid |-> FALSE, records |-> <<>>, reads |-> 1,
     results |-> Append(ledger, ValidationResult(REJECTION, code, ""))]

\* The failure the environment inflicts on a call: none, the keyed fetch
\* raises, the beneficiary count lookup raises, open() of the export file
\* raises, or json.dump raises after the file was created.  A call is given
\* a failure only where it has the step that fails.
Faults == {"none", "read_sql", "count", "open", "dump"}

(***************************************************************************)
(* TransaccionesValidator (AF)                                             *)
(***************************************************************************)
AFRow(k) ==
    [codPrestador |-> "900123456", consecutivo |-> k, numDocumentoIdObligado |-> "900123",
     numFactura |-> "F1", tipoNota |-> None, numNota |-> None]

Transacciones ==
    << AFRow("T1"),
       [AFRow("T1") EXCEPT !.numFactura = "F2"],
       [AFRow("T2") EXCEPT !.tipoNota = "RS", !.numFactura = None],
       [AFRow("T3") EXCEPT !.tipoNota = "XX"],
       [AFRow("T4") EXCEPT !.codPrestador = None, !.tipoNota = "NOTA"] >>

TransaccionesValidator_validate(ledger, consecutivo, fault) ==
    IF fault = "read_sql" THEN query_error(ledger, "ERR_AF_002", 1)
    ELSE
    LET df == read_sql(Transacciones, "consecutivo", consecutivo) IN
    IF df = <<>> THEN not_found(ledger, "ERR_AF_001")
    ELSE
    LET record == df[1]
        c0 == [valid |-> TRUE, results |-> ledger]
        c1 == step(c0, validate_string(c0.results, record.codPrestador, "codPrestador", 12, TRUE, None))
        c2 == step(c1, validate_string(c1.results, record.numDocumentoIdObligado, "numDocumentoIdObligado", 20, TRUE, None))
        c3 == step(c2, validate_string(c2.results, record.numFactura, "numFactura", 20, FALSE, None))
        c4 == step(c3, validate_string(c3.results, record.tipoNota, "tipoNota", 2, FALSE, None))
        c5 == step(c4, validate_string(c4.results, record.numNota, "numNota", 20, FALSE, None))
        c6 == IF truthy(record.tipoNota)
              THEN step(c5, validate_code(c5.results, record.tipoNota, "tipoNota", "TIPO_NOTA"))
              ELSE c5
        c7 == IF truthy(record.tipoNota) /\ record.tipoNota = "RS" /\ isna(record.numFactura)
              THEN log(c6, ValidationResult(NOTIFICATION, "INFO_AF_001", "tipoNota"))
              ELSE c6
    IN [valid |-> c7.valid, records |-> to_records(df), results |-> c7.results, reads |-> 1]

(***************************************************************************)
(* UsuariosValidator (US)                                                  *)
(***************************************************************************)
USRow(k) ==
    [tipoDocumentoIdentificacion |-> "CC", numDocumentoIdentificacion |-> k, codPaisOrigen |-> "170"]

Usuarios ==
    << USRow("U1"),
       [USRow("U2") EXCEPT !.tipoDocumentoIdentificacion = "XX"],
       [USRow("U3") EXCEPT !.codPaisOrigen = None],
       [USRow("U4") EXCEPT !.tipoDocumentoIdentificacion = "NIT", !.codPaisOrigen = "  "] >>

UsuariosValidator_validate(ledger, consecutivo, fault) ==
    IF fault = "read_sql" THEN query_error(ledger, "ERR_US_002", 1)
    ELSE
    LET df == read_sql(Usuarios, "numDocumentoIdentificacion", consecutivo) IN
    IF df = <<>> THEN not_found(ledger, "ERR_US_001")
    ELSE
    LET record == df[1]
        c0 == [valid |-> TRUE, results |-> ledger]
        c1 == step(c0, validate_string(c0.results, record.tipoDocumentoIdentificacion, "tipoDocumentoIdentificacion", 2, TRUE, None))
        c2 == step(c1, validate_string(c1.results, record.numDocumentoIdentificacion, "numDocumentoIdentificacion", 20, TRUE, None))
        c3 == step(c2, validate_string(c2.results, record.codPaisOrigen, "codPaisOrigen", 3, TRUE, None))
        c4 == step(c3, validate_code(c3.results, record.tipoDocumentoIdentificacion, "tipoDocumentoIdentificacion", "TIPO_DOCUMENTO"))
    IN [valid |-> c4.valid, records |-> to_records(df), results |-> c4.results, reads |-> 1]

(***************************************************************************)
(* The beneficiary cross-reference that closes the validate of AC, AP, AU, *)
(* AH, AN, AM and AT: the row count lookup in Usuarios, the Rejection when  *)
(* it is zero, and the return of (valid, records).  A failure of the       *)
(* lookup reaches the `except Exception` arm with the ledger as the checks *)
(* left it.                                                                *)
(***************************************************************************)
cross_reference(c, df, numDocumentoIdentificacion, fault, code_missing, code_error) ==
    IF fault = "count" THEN query_error(c.results, code_error, 2)
    ELSE
    LET user_count == count_sql(Usuarios, "numDocumentoIdentificacion", numDocumentoIdentificacion)
        c1 == IF user_count = 0
              THEN reject(c, ValidationResult(REJECTION, code_missing, "numDocumentoIdentificacion"))
              ELSE c
    IN [valid |-> c1.valid, records |-> to_records(df), results |-> c1.results, reads |-> 2]

(***************************************************************************)
(* ConsultasValidator (AC)                                                 *)
(***************************************************************************)
ACRow(k) ==
    [codPrestador |-> "900123456", consecutivo |-> k, numDocumentoIdentificacion |-> "U1",
     fechaConsulta |-> "2024-01-10 08:00:00", codConsulta |-> "890501",
     codDiagnosticoPrincipal |-> "E119", conceptoRecaudo |-> "02"]

Consultas ==
    << ACRow("C1"),
       [ACRow("C2") EXCEPT !.conceptoRecaudo = "01"],
       [ACRow("C3") EXCEPT !.codDiagnosticoPrincipal = "Z000"],
       [ACRow("C4") EXCEPT !.codConsulta = "999999", !.conceptoRecaudo = "01"],
       [ACRow("C5") EXCEPT !.numDocumentoIdentificacion = "U9"],
       [ACRow("C6") EXCEPT !.numDocumentoIdentificacion = "U9", !.fechaConsulta = "2024-01-10"],
       [ACRow("C7") EXCEPT !.codConsulta = None, !.conceptoRecaudo = "01"],
       [ACRow("C8") EXCEPT !.conceptoRecaudo = "01", !.codDiagnosticoPrincipal = "Z000"] >>

ConsultasValidator_validate(ledger, consecutivo, fault) ==
    IF fault = "read_sql" THEN query_error(ledger, "ERR_AC_004", 1)
    ELSE
    LET df == read_sql(Consultas, "consecutivo", consecutivo) IN
    IF df = <<>> THEN not_found(ledger, "ERR_AC_001")
    ELSE
    LET record == df[1]
        c0 == [valid |-> TRUE, results |-> ledger]
        c1 == step(c0, validate_string(c0.results, record.codPrestador, "codPrestador", 12, TRUE, None))
        c2 == step(c1, validate_string(c1.results, record.numDocumentoIdentificacion, "numDocumentoIdentificacion", 20, TRUE, None))
        c3 == step(c2, validate_date(c2.results, record.fechaConsulta, "fechaConsulta", TRUE))
        c4 == step(c3, validate_string(c3.results, record.codConsulta, "codConsulta", 6, TRUE, None))
        c5 == step(c4, validate_string(c4.results, record.codDiagnosticoPrincipal, "codDiagnosticoPrincipal", 25, TRUE, None))
        c6 == step(c5, validate_string(c5.results, record.conceptoRecaudo, "conceptoRecaudo", 2, FALSE, None))
        c7 == IF truthy(record.codConsulta)
              THEN step(c6, validate_code(c6.results, record.codConsulta, "codConsulta", "CUPS"))
              ELSE c6
        c8 == IF ~truthy(record.codConsulta) THEN c7
              ELSE IF record.codConsulta \in {"890501", "890601"} /\ record.conceptoRecaudo = "01"
              THEN log(c7, ValidationResult(NOTIFICATION, "INFO_AC_001", "conceptoRecaudo"))
              ELSE IF record.conceptoRecaudo = "01" /\ record.codConsulta \notin {"890501", "890601"}
              THEN reject(c7, ValidationResult(REJECTION, "ERR_AC_002", "conceptoRecaudo"))
              ELSE c7
        c9 == IF truthy(record.codDiagnosticoPrincipal)
              THEN step(c8, validate_code(c8.results, record.codDiagnosticoPrincipal, "codDiagnosticoPrincipal", "CIE10"))
              ELSE c8
    IN cross_reference(c9, df, record.numDocumentoIdentificacion, fault, "ERR_AC_003", "ERR_AC_004")

(***************************************************************************)
(* ProcedimientosValidator (AP)                                            *)
(***************************************************************************)
APRow(k) ==
    [codPrestador |-> "900123456", consecutivo |-> k, numDocumentoIdentificacion |-> "U1",
     fechaInicioAtencion |-> "2024-01-10 08:00:00", numAutorizacion |-> "AUT1",
     codProcedimiento |-> "890601", viaIngreso |-> "01"]

Procedimientos ==
    << APRow("P1"),
       [APRow("P2") EXCEPT !.numAutorizacion = None],
       [APRow("P3") EXCEPT !.viaIngreso = "09"],
       [APRow("P4") EXCEPT !.codProcedimiento = None],
       [APRow("P5") EXCEPT !.numDocumentoIdentificacion = "U9"] >>

ProcedimientosValidator_validate(ledger, consecutivo, fault) ==
    IF fault = "read_sql" THEN query_error(ledger, "ERR_AP_003", 1)
    ELSE
    LET df == read_sql(Procedimientos, "consecutivo", consecutivo) IN
    IF df = <<>> THEN not_found(ledger, "ERR_AP_001")
    ELSE
    LET record == df[1]
        c0 == [valid |-> TRUE, results |-> ledger]
        c1 == step(c0, validate_string(c0.results, record.codPrestador, "codPrestador", 12, TRUE, None))
        c2 == step(c1, validate_string(c1.results, record.numDocumentoIdentificacion, "numDocumentoIdentificacion", 20, TRUE, None))
        c3 == step(c2, validate_date(c2.results, record.fechaInicioAtencion, "fechaInicioAtencion", TRUE))
        c4 == step(c3, validate_string(c3.results, record.numAutorizacion, "numAutorizacion", 30, FALSE, None))
        c5 == step(c4, validate_string(c4.results, record.codProcedimiento, "codProcedimiento", 6, TRUE, None))
        c6 == step(c5, validate_string(c5.results, record.viaIngreso, "viaIngreso", 2, TRUE, None))
        c7 == step(c6, validate_code(c6.results, record.codProcedimiento, "codProcedimiento", "CUPS"))
        c8 == step(c7, validate_code(c7.results, record.viaIngreso, "viaIngreso", "VIA_INGRESO"))
        c9 == IF isna(record.numAutorizacion)
              THEN log(c8, ValidationResult(NOTIFICATION, "INFO_AP_001", "numAutorizacion"))
              ELSE c8
    IN cross_reference(c9, df, record.numDocumentoIdentificacion, fault, "ERR_AP_002", "ERR_AP_003")

(***************************************************************************)
(* UrgenciasValidator (AU)                                                 *)
(***************************************************************************)
AURow(k) ==
    [codPrestador |-> "900123456", consecutivo |-> k, numDocumentoIdentificacion |-> "U1",
     fechaInicioAtencion |-> "2024-01-10 08:00:00", causaExterna |-> "01",
     codDiagnosticoPrincipal |-> "J459", condicionDestinoUsuarioEgreso |-> "01"]

Urgencias ==
    << AURow("G1"),
       [AURow("G2") EXCEPT !.causaExterna = "99"],
       [AURow("G3") EXCEPT !.condicionDestinoUsuarioEgreso = None],
       [AURow("G4") EXCEPT !.numDocumentoIdentificacion = "U9"] >>

UrgenciasValidator_validate(ledger, consecutivo, fault) ==
    IF fault = "read_sql" THEN query_error(ledger, "ERR_AU_003", 1)
    ELSE
    LET df == read_sql(Urgencias, "consecutivo", consecutivo) IN
    IF df = <<>> THEN not_found(ledger, "ERR_AU_001")
    ELSE
    LET record == df[1]
        c0 == [valid |-> TRUE, results |-> ledger]
        c1 == step(c0, validate_string(c0.results, record.codPrestador, "codPrestador", 12, TRUE, None))
        c2 == step(c1, validate_string(c1.results, record.numDocumentoIdentificacion, "numDocumentoIdentificacion", 20, TRUE, None))
        c3 == step(c2, validate_date(c2.results, record.fechaInicioAtencion, "fechaInicioAtencion", TRUE))
        c4 == step(c3, validate_string(c3.results, record.causaExterna, "causaExterna", 2, TRUE, None))
        c5 == step(c4, validate_string(c4.results, record.codDiagnosticoPrincipal, "codDiagnosticoPrincipal", 25, TRUE, None))
        c6 == step(c5, validate_string(c5.results, record.condicionDestinoUsuarioEgreso, "condicionDestinoUsuarioEgreso", 2, TRUE, None))
        c7 == step(c6, validate_code(c6.results, record.causaExterna, "causaExterna", "CAUSA_EXTERNA"))
        c8 == step(c7, validate_code(c7.results, record.codDiagnosticoPrincipal, "codDiagnosticoPrincipal", "CIE10"))
    IN cross_reference(c8, df, record.numDocumentoIdentificacion, fault, "ERR_AU_002", "ERR_AU_003")

(***************************************************************************)
(* HospitalizacionValidator (AH)                                           *)
(***************************************************************************)
AHRow(k) ==
    [codPrestador |-> "900123456", consecutivo |-> k, numDocumentoIdentificacion |-> "U1",
     fechaIngreso |-> "2024-01-05 08:00:00", codDiagnosticoPrincipal |-> "E119",
     fechaEgreso |-> "2024-01-10 08:00:00", codDiagnosticoCausaMuerte |-> None]

Hospitalizacion ==
    << AHRow("H1"),
       [AHRow("H2") EXCEPT !.codDiagnosticoCausaMuerte = "Z000"],
       [AHRow("H3") EXCEPT !.fechaIngreso = "2024-01-10 08:00:00", !.fechaEgreso = "2024-01-05 08:00:00"],
       [AHRow("H4") EXCEPT !.fechaEgreso = "2024-01-10"],
       [AHRow("H5") EXCEPT !.numDocumentoIdentificacion = "U9"],
       [AHRow("H6") EXCEPT !.fechaIngreso = "2024-01-10 08:00:00"],
       [AHRow("H7") EXCEPT !.numDocumentoIdentificacion = "U9", !.fechaEgreso = "2024-01-10"] >>

\* mutant of egreso_before_ingreso: a discharge at the instant of admission
\* is rejected too
egreso_not_after_ingreso(fecha_egreso, fecha_ingreso) == fecha_egreso[1] <= fecha_ingreso[1]

\* `fecha_egreso < fecha_ingreso` on two parsed instants
egreso_before_ingreso(fecha_egreso, fecha_ingreso) == fecha_egreso[1] < fecha_ingreso[1]

HospitalizacionValidator_validate(ledger, consecutivo, fault) ==
    IF fault = "read_sql" THEN query_error(ledger, "ERR_AH_004", 1)
    ELSE
    LET df == read_sql(Hospitalizacion, "consecutivo", consecutivo) IN
    IF df = <<>> THEN not_found(ledger, "ERR_AH_001")
    ELSE
    LET record == df[1]
        c0 == [valid |-> TRUE, results |-> ledger]
        c1 == step(c0, validate_string(c0.results, record.codPrestador, "codPrestador", 12, TRUE, None))
        c2 == step(c1, validate_string(c1.results, record.numDocumentoIdentificacion, "numDocumentoIdentificacion", 20, TRUE, None))
        c3 == step(c2, validate_date(c2.results, record.fechaIngreso, "fechaIngreso", TRUE))
        c4 == step(c3, validate_string(c3.results, record.codDiagnosticoPrincipal, "codDiagnosticoPrincipal", 25, TRUE, None))
        c5 == step(c4, validate_date(c4.results, record.fechaEgreso, "fechaEgreso", TRUE))
        c6 == step(c5, validate_string(c5.results, record.codDiagnosticoCausaMuerte, "codDiagnosticoCausaMuerte", 25, FALSE, None))
        c7 == step(c6, validate_code(c6.results, record.codDiagnosticoPrincipal, "codDiagnosticoPrincipal", "CIE10"))
        c8 == IF truthy(record.codDiagnosticoCausaMuerte)
              THEN step(c7, validate_code(c7.results, record.codDiagnosticoCausaMuerte, "codDiagnosticoCausaMuerte", "CIE10"))
              ELSE c7
        compare == truthy(record.fechaIngreso) /\ truthy(record.fechaEgreso)
        fecha_ingreso == strptime(record.fechaIngreso)
        fecha_egreso == strptime(record.fechaEgreso)
    IN  IF compare /\ (fecha_ingreso = <<>> \/ fecha_egreso = <<>>)
        THEN \* strptime raises ValueError inside the try block
             query_error(c8.results, "ERR_AH_004", 1)
        ELSE
        LET c9 == IF compare /\ egreso_before_ingreso(fecha_egreso, fecha_ingreso)
                  THEN reject(c8, ValidationResult(REJECTION, "ERR_AH_002", "fechaEgreso"))
                  ELSE c8
        IN cross_reference(c9, df, record.numDocumentoIdentificacion, fault, "ERR_AH_003", "ERR_AH_004")

(***************************************************************************)
(* RecienNacidoValidator (AN)                                              *)
(***************************************************************************)
ANRow(k) ==
    [codPrestador |-> "900123456", consecutivo |-> k, numDocumentoIdentificacion |-> "U1",
     fechaNacimiento |-> "2024-01-10 09:30:00", sexoRecienNacido |-> "F",
     pesoRecienNacido |-> <<32>>]

Recien_Nacido ==
    << ANRow("N1"),
       [ANRow("N2") EXCEPT !.sexoRecienNacido = "X"],
       [ANRow("N3") EXCEPT !.pesoRecienNacido = <<0>>],
       [ANRow("N4") EXCEPT !.numDocumentoIdentificacion = "U9"],
       [ANRow("N5") EXCEPT !.sexoRecienNacido = None, !.pesoRecienNacido = <<>>] >>

\* mutant of sexo_not_M_or_F: an absent value is let through
sexo_present_not_M_or_F(sexo) == truthy(sexo) /\ sexo \notin {"M", "F"}

\* `record["sexoRecienNacido"] not in ["M", "F"]`
sexo_not_M_or_F(sexo) == sexo \notin {"M", "F"}

RecienNacidoValidator_validate(ledger, consecutivo, fault) ==
    IF fault = "read_sql" THEN query_error(ledger, "ERR_AN_004", 1)
    ELSE
    LET df == read_sql(Recien_Nacido, "consecutivo", consecutivo) IN
    IF df = <<>> THEN not_found(ledger, "ERR_AN_001")
    ELSE
    LET record == df[1]
        c0 == [valid |-> TRUE, results |-> ledger]
        c1 == step(c0, validate_string(c0.results, record.codPrestador, "codPrestador", 12, TRUE, None))
        c2 == step(c1, validate_string(c1.results, record.numDocumentoIdentificacion, "numDocumentoIdentificacion", 20, TRUE, None))
        c3 == step(c2, validate_date(c2.results, record.fechaNacimiento, "fechaNacimiento", TRUE))
        c4 == step(c3, validate_string(c3.results, record.sexoRecienNacido, "sexoRecienNacido", 1, TRUE, None))
        c5 == step(c4, validate_number(c4.results, record.pesoRecienNacido, "pesoRecienNacido", <<1>>, <<>>))
        c6 == IF sexo_not_M_or_F(record.sexoRecienNacido)
              THEN reject(c5, ValidationResult(REJECTION, "ERR_AN_002", "sexoRecienNacido"))
              ELSE c5
    IN cross_reference(c6, df, record.numDocumentoIdentificacion, fault, "ERR_AN_003", "ERR_AN_004")

(***************************************************************************)
(* MedicamentosValidator (AM)                                              *)
(***************************************************************************)
\* mutant of lower: the name is searched as it is written
lower_as_written(s) == s

\* str.lower() on the medication names of the model.
lower(s) ==
    CASE s = "Formula MAGISTRAL" -> "formula magistral"
      [] s = "Metformina" -> "metformina"
      [] OTHER -> s

\* `sub in s` on the medication names and concentrations of the model.
contains(sub, s) ==
    CASE sub = "magistral" -> s \in {"formula magistral", "crema magistral"}
      [] sub = "." -> s \in {"0.5", "2.5"}
      [] OTHER -> FALSE

AMRow(k) ==
    [codPrestador |-> "900123456", consecutivo |-> k, numDocumentoIdentificacion |-> "U1",
     codTecnologiaSalud |-> "A10BA02", nomTecnologiaSalud |-> "Metformina",
     concentracionMedicamento |-> "500", formaFarmaceutica |-> "tableta"]

Medicamentos ==
    << AMRow("M1"),
       [AMRow("M2") EXCEPT !.nomTecnologiaSalud = "Formula MAGISTRAL"],
       [AMRow("M3") EXCEPT !.nomTecnologiaSalud = "crema magistral", !.concentracionMedicamento = "0.5"],
       [AMRow("M4") EXCEPT !.codTecnologiaSalud = "B01AC06"],
       [AMRow("M5") EXCEPT !.concentracionMedicamento = "1000"],
       [AMRow("M6") EXCEPT !.numDocumentoIdentificacion = "U9"],
       [AMRow("M7") EXCEPT !.concentracionMedicamento = "2.5"] >>

MedicamentosValidator_validate(ledger, consecutivo, fault) ==
    IF fault = "read_sql" THEN query_error(ledger, "ERR_AM_004", 1)
    ELSE
    LET df == read_sql(Medicamentos, "consecutivo", consecutivo) IN
    IF df = <<>> THEN not_found(ledger, "ERR_AM_001")
    ELSE
    LET record == df[1]
        c0 == [valid |-> TRUE, results |-> ledger]
        c1 == step(c0, validate_string(c0.results, record.codPrestador, "codPrestador", 12, TRUE, None))
        c2 == step(c1, validate_string(c1.results, record.numDocumentoIdentificacion, "numDocumentoIdentificacion", 20, TRUE, None))
        c3 == step(c2, validate_string(c2.results, record.codTecnologiaSalud, "codTecnologiaSalud", 7, TRUE, None))
        c4 == step(c3, validate_string(c3.results, record.nomTecnologiaSalud, "nomTecnologiaSalud", 150, TRUE, None))
        c5 == step(c4, validate_string(c4.results, record.concentracionMedicamento, "concentracionMedicamento", 3, FALSE, None))
        c6 == step(c5, validate_string(c5.results, record.formaFarmaceutica, "formaFarmaceutica", 20, FALSE, None))
        c7 == IF truthy(record.codTecnologiaSalud)
              THEN step(c6, validate_code(c6.results, record.codTecnologiaSalud, "codTecnologiaSalud", "ATC"))
              ELSE c6
        magistral == truthy(record.nomTecnologiaSalud) /\ contains("magistral", lower(record.nomTecnologiaSalud))
        c8 == IF magistral
              THEN log(c7, ValidationResult(NOTIFICATION, "INFO_AM_001", "nomTecnologiaSalud"))
              ELSE c7
        c9 == IF magistral /\ truthy(record.concentracionMedicamento) /\ contains(".", record.concentracionMedicamento)
              THEN log(c8, ValidationResult(NOTIFICATION, "WARN_AM_002", "concentracionMedicamento"))
              ELSE c8
    IN cross_reference(c9, df, record.numDocumentoIdentificacion, fault, "ERR_AM_003", "ERR_AM_004")

(***************************************************************************)
(* OtrosServiciosValidator (AT)                                            *)
(***************************************************************************)
ATRow(k) ==
    [codPrestador |-> "900123456", consecutivo |-> k, numDocumentoIdentificacion |-> "U1",
     tipoOS |-> "01", codTecnologiaSalud |-> "OS001", cantidadOS |-> <<2>>]

Otros_Servicios ==
    << ATRow("S1"),
       [ATRow("S2") EXCEPT !.tipoOS = "09"],
       [ATRow("S3") EXCEPT !.cantidadOS = <<0>>],
       [ATRow("S4") EXCEPT !.numDocumentoIdentificacion = "U9"] >>

OtrosServiciosValidator_validate(ledger, consecutivo, fault) ==
    IF fault = "read_sql" THEN query_error(ledger, "ERR_AT_003", 1)
    ELSE
    LET df == read_sql(Otros_Servicios, "consecutivo", consecutivo) IN
    IF df = <<>> THEN not_found(ledger, "ERR_AT_001")
    ELSE
    LET record == df[1]
        c0 == [valid |-> TRUE, results |-> ledger]
        c1 == step(c0, validate_string(c0.results, record.codPrestador, "codPrestador", 12, TRUE, None))
        c2 == step(c1, validate_string(c1.results, record.numDocumentoIdentificacion, "numDocumentoIdentificacion", 20, TRUE, None))
        c3 == step(c2, validate_string(c2.results, record.tipoOS, "tipoOS", 2, TRUE, None))
        c4 == step(c3, validate_string(c3.results, record.codTecnologiaSalud, "codTecnologiaSalud", 7, TRUE, None))
        c5 == step(c4, validate_number(c4.results, record.cantidadOS, "cantidadOS", <<1>>, <<>>))
        c6 == step(c5, validate_code(c5.results, record.tipoOS, "tipoOS", "TIPO_OS"))
    IN cross_reference(c6, df, record.numDocumentoIdentificacion, fault, "ERR_AT_002", "ERR_AT_003")

(***************************************************************************)
(* RIPSProcessor                                                           *)
(***************************************************************************)
\* the keys of self.validators
FileTypes == {"AF", "US", "AC", "AP", "AU", "AH", "AN", "AM", "AT"}

\* self.validators[file_type].validate(consecutivo), on the ledger of that
\* validator
validate(file_type, ledger, consecutivo, fault) ==
    CASE file_type = "AF" -> TransaccionesValidator_validate(ledger, consecutivo, fault)
      [] file_type = "US" -> UsuariosValidator_validate(ledger, consecutivo, fault)
      [] file_type = "AC" -> ConsultasValidator_validate(ledger, consecutivo, fault)
      [] file_type = "AP" -> ProcedimientosValidator_validate(ledger, consecutivo, fault)
      [] file_type = "AU" -> UrgenciasValidator_validate(ledger, consecutivo, fault)
      [] file_type = "AH" -> HospitalizacionValidator_validate(ledger, consecutivo, fault)
      [] file_type = "AN" -> RecienNacidoValidator_validate(ledger, consecutivo, fault)
      [] file_type = "AM" -> MedicamentosValidator_validate(ledger, consecutivo, fault)
      [] file_type = "AT" -> OtrosServiciosValidator_validate(ledger, consecutivo, fault)

\* mutant of has_rejections: the dispatcher trusts the validator's boolean and
\* never looks at the ledger
has_rejections_trusting(ledger) == FALSE

\* mutant of has_rejections: only the outcome appended last is looked at
has_rejections_at_end(ledger) ==
    ledger # <<>> /\ ledger[Len(ledger)].result_type = REJECTION

\* any(r.result_type == ValidationResultType.REJECTION for r in validator.results)
has_rejections(ledger) == \E i \in DOMAIN ledger : ledger[i].result_type = REJECTION

\* mutant of to_dicts: the Rejections are listed before the Notifications
to_dicts_by_severity(ledger) ==
    LET sorted == SelectSeq(ledger, LAMBDA r : r.result_type = REJECTION)
                    \o SelectSeq(ledger, LAMBDA r : r.result_type # REJECTION)
    IN [i \in DOMAIN sorted |-> to_dict(sorted[i])]

\* [r.to_dict() for r in validator.results]
to_dicts(ledger) == [i \in DOMAIN ledger |-> to_dict(ledger[i])]

\* mutant of json_file: the key is left out of the name
json_file_without_key(file_type, consecutivo) == "rips_" \o file_type \o ".json"

\* f"rips_{file_type}_{consecutivo}.json"
json_file(file_type, consecutivo) == "rips_" \o file_type \o "_" \o consecutivo \o ".json"

NumericColumns == {"pesoRecienNacido", "cantidadOS"}

\* json.dump(records, f): every row becomes an object with the same keys;
\* None is written as null, a text as a quoted string, a number as itself.
json_dump(records) ==
    [i \in DOMAIN records |->
        [col \in DOMAIN records[i] |->
            IF col \in NumericColumns THEN records[i][col]
            ELSE IF records[i][col] = None THEN "null"
            ELSE "\"" \o records[i][col] \o "\""]]

\* mutant of unsupported: the response carries no outcome
unsupported_without_outcome ==
    [Valid |-> FALSE, ValidationResults |-> <<>>, JSONGenerated |-> FALSE]

\* the response of an unsupported file_type
unsupported ==
    [Valid |-> FALSE,
     ValidationResults |-> << [Clase |-> "RECHAZO", Codigo |-> "ERR_GEN_001", Fuente |-> "RIPS"] >>,
     JSONGenerated |-> FALSE]

\* The type tags and keys a caller passes: every supported tag and one
\* unsupported tag; for a supported tag every key stored in its table and one
\* key that is not.
Tags == FileTypes \cup {"ZZ"}

\* the table and the key column of the keyed query of each validator
TableOf(file_type) ==
    CASE file_type = "AF" -> Transacciones
      [] file_type = "US" -> Usuarios
      [] file_type = "AC" -> Consultas
      [] file_type = "AP" -> Procedimientos
      [] file_type = "AU" -> Urgencias
      [] file_type = "AH" -> Hospitalizacion
      [] file_type = "AN" -> Recien_Nacido
      [] file_type = "AM" -> Medicamentos
      [] file_type = "AT" -> Otros_Servicios

KeyColumnOf(file_type) ==
    IF file_type = "US" THEN "numDocumentoIdentificacion" ELSE "consecutivo"

Keys(file_type) ==
    IF file_type \in FileTypes
    THEN {TableOf(file_type)[i][KeyColumnOf(file_type)] : i \in DOMAIN TableOf(file_type)} \cup {"X0"}
    ELSE {"X0"}

(***************************************************************************)
(* State.                                                                  *)
(*   results  the ledger (self.results) of each of the nine validators     *)
(*   files    the export files on disk, by name                            *)
(*   last     the last call of process as its caller saw it: its           *)
(*            arguments, the fault injected by the environment, whether a  *)
(*            validator was invoked, the number of queries it issued, what *)
(*            validate returned, the length of the ledger before the call, *)
(*            and either the response (a one-element sequence) or raised   *)
(*   ncalls   the number of calls made so far                              *)
(***************************************************************************)
Init ==
    /\ results = [t \in FileTypes |-> <<>>]
    /\ files = [name \in {} |-> <<>>]
    /\ last = [op |-> "none", file_type |-> "", consecutivo |-> "", fault |-> "none",
               invoked |-> FALSE, reads |-> 0, is_valid |-> FALSE, records |-> <<>>,
               before |-> 0, raised |-> FALSE, response |-> <<>>]
    /\ ncalls = 0
    /\ DatabaseSearcherApp_init

process(file_type, consecutivo, fault) ==
    /\ ncalls < MaxCalls
    /\ ncalls' = ncalls + 1
    /\ UNCHANGED window_vars
    /\ IF file_type \notin FileTypes
       THEN /\ fault = "none"
            /\ last' = [op |-> "process", file_type |-> file_type, consecutivo |-> consecutivo,
                        fault |-> fault, invoked |-> FALSE, reads |-> 0, is_valid |-> FALSE,
                        records |-> <<>>, before |-> 0, raised |-> FALSE,
                        response |-> << unsupported >>]
            /\ UNCHANGED <<results, files>>
       ELSE \E v \in {validate(file_type, results[file_type], consecutivo, fault)} :
            LET response == [Valid |-> v.valid /\ ~has_rejections(v.results),
                             ValidationResults |-> to_dicts(v.results),
                             JSONGenerated |-> FALSE]
                name == json_file(file_type, consecutivo)
                call == [op |-> "process", file_type |-> file_type, consecutivo |-> consecutivo,
                         fault |-> fault, invoked |-> TRUE, reads |-> v.reads,
                         is_valid |-> v.valid, records |-> v.records,
                         before |-> Len(results[file_type]), raised |-> FALSE,
                         response |-> << response >>]
            IN /\ fault = "count" => v.reads = 2
               /\ fault \in {"open", "dump"} => response.Valid
               /\ results' = [results EXCEPT ![file_type] = v.results]
               /\ IF ~response.Valid
                  THEN /\ last' = call
                       /\ UNCHANGED files
                  ELSE IF fault = "open"
                  THEN \* open(json_file, "w") raises: nothing is written
                       /\ last' = [call EXCEPT !.raised = TRUE, !.response = <<>>]
                       /\ UNCHANGED files
                  ELSE IF fault = "dump"
                  THEN \* json.dump raises after the file was created
                       /\ last' = [call EXCEPT !.raised = TRUE, !.response = <<>>]
                       /\ files' = (name :> [complete |-> FALSE, doc |-> <<>>]) @@ files
                  ELSE /\ last' = [call EXCEPT !.response =
                                     << [Valid |-> TRUE,
                                         ValidationResults |-> response.ValidationResults,
                                         JSONGenerated |-> TRUE,
                                         JSONFile |-> name] >>]
                       /\ files' = (name :> [complete |-> TRUE, doc |-> json_dump(v.records)]) @@ files

Next == \E file_type \in Tags : \E consecutivo \in Keys(file_type) : \E fault \in Faults :
            process(file_type, consecutivo, fault)

Spec == Init /\ [][Next]_vars

(***************************************************************************)
(* Vocabulary of the properties                                            *)
(***************************************************************************)
\* the last call returned a response to its caller
Returned == last.op = "process" /\ Len(last.response) = 1

\* the response of the last call (defined when Returned)
Response == last.response[1]

\* the outcomes appended to the ledger of the validator during the last call
Produced ==
    IF last.invoked
    THEN SubSeq(results[last.file_type], last.before + 1, Len(results[last.file_type]))
    ELSE <<>>

\* the serialized outcomes of a response that are Rejections
Rejections(response) ==
    {i \in DOMAIN response.ValidationResults : response.ValidationResults[i].Clase = "RECHAZO"}

(***************************************************************************)
(* C1: every response whose ValidationResults holds at least one RECHAZO   *)
(* has Valid = false and JSONGenerated = false, whatever validate          *)
(* returned.                                                               *)
(***************************************************************************)
C1_RejectionBlocks ==
    Returned /\ Rejections(Response) # {}
        => Response.Valid = FALSE /\ Response.JSONGenerated = FALSE

\* validate returned True for a record with no finding, and the response is
\* still invalid because the ledger holds a Rejection
C1_Witness ==
    /\ Returned
    /\ last.is_valid = TRUE
    /\ Rejections(Response) # {}
    /\ Response.Valid = FALSE

\* the rows the keyed query of the last call selects when storage works
Stored == read_sql(TableOf(last.file_type), KeyColumnOf(last.file_type), last.consecutivo)

\* the last call invoked a validator whose keyed fetch returned a record
FoundRecord == last.invoked /\ last.fault # "read_sql" /\ Stored # <<>>

\* the last call invoked a validator whose keyed fetch returned zero rows
ZeroRows == last.invoked /\ last.fault # "read_sql" /\ Stored = <<>>

\* the codes of the serialized outcomes of a response, in order
Codes(response) ==
    [i \in DOMAIN response.ValidationResults |-> response.ValidationResults[i].Codigo]

(***************************************************************************)
(* C2: a process call on a found record that produces only Notification    *)
(* outcomes, and no Rejection, returns Valid = true.  Stated for a call    *)
(* that starts on an empty ledger, so that no outcome of an earlier call   *)
(* takes part in the verdict.                                              *)
(***************************************************************************)
C2_NotificationNeverInvalidates ==
    ( /\ FoundRecord
      /\ Returned
      /\ last.before = 0
      /\ Produced # <<>>
      /\ \A i \in DOMAIN Produced : Produced[i].result_type = NOTIFICATION )
        => Response.Valid = TRUE

(***************************************************************************)
(* C3: two process calls in a row with the same type and key, and no       *)
(* storage or export failure in either, return the same outcome codes in   *)
(* the same order and the same Valid.                                      *)
(***************************************************************************)
C3_Idempotent ==
    [][ ( /\ last.op = "process" /\ last'.op = "process"
          /\ last'.file_type = last.file_type
          /\ last'.consecutivo = last.consecutivo
          /\ last.fault = "none" /\ last'.fault = "none"
          /\ Len(last.response) = 1 /\ Len(last'.response) = 1 )
            => /\ Codes(last'.response[1]) = Codes(last.response[1])
               /\ last'.response[1].Valid = last.response[1].Valid ]_vars

(***************************************************************************)
(* C4: the ValidationResults of a response are exactly the outcomes        *)
(* produced during that call, and Valid depends on those outcomes only.    *)
(***************************************************************************)
C4_IndependentVerdict ==
    Returned /\ last.invoked
        => /\ Response.ValidationResults = to_dicts(Produced)
           /\ Response.Valid = (last.is_valid /\ ~has_rejections(Produced))

(***************************************************************************)
(* C5: for each of the nine record types a zero-row fetch returns          *)
(* Valid = false, JSONGenerated = false and exactly one Rejection, the     *)
(* not-found code ERR_<TYPE>_001 of the type.                              *)
(***************************************************************************)
C5_ZeroRowFetch ==
    ZeroRows
        => /\ Returned
           /\ Response.Valid = FALSE
           /\ Response.JSONGenerated = FALSE
           /\ Cardinality(Rejections(Response)) = 1
           /\ \A i \in Rejections(Response) :
                 Response.ValidationResults[i].Codigo = "ERR_" \o last.file_type \o "_001"

(***************************************************************************)
(* C6: process with a type tag outside the nine supported ones returns     *)
(* Valid = false, JSONGenerated = false and exactly one outcome, a         *)
(* Rejection with code ERR_GEN_001; no validator is invoked, no query is   *)
(* issued, and every ledger and every export file is left as it was.       *)
(***************************************************************************)
C6_UnsupportedType ==
    [][ (ncalls' # ncalls /\ last'.file_type \notin FileTypes)
            => /\ Len(last'.response) = 1
               /\ last'.raised = FALSE
               /\ last'.response[1].Valid = FALSE
               /\ last'.response[1].JSONGenerated = FALSE
               /\ Len(last'.response[1].ValidationResults) = 1
               /\ last'.response[1].ValidationResults[1].Clase = "RECHAZO"
               /\ last'.response[1].ValidationResults[1].Codigo = "ERR_GEN_001"
               /\ last'.invoked = FALSE
               /\ last'.reads = 0
               /\ results' = results
               /\ files' = files ]_vars

\* an unsupported tag was processed while a ledger already held outcomes
C6_Witness ==
    /\ Returned
    /\ last.file_type = "ZZ"
    /\ \E t \in FileTypes : results[t] # <<>>

(***************************************************************************)
(* C7: in every response JSONGenerated equals Valid; a valid response      *)
(* names the file rips_<typeTag>_<key>.json and that file has been         *)
(* written; an invalid response names no file and the call wrote none; no  *)
(* call writes a file unless its overall verdict is valid.                 *)
(***************************************************************************)
C7_ExportIffValid ==
    [][ ncalls' # ncalls
            => /\ \A i \in DOMAIN last'.response :
                    LET r == last'.response[i]
                        name == "rips_" \o last'.file_type \o "_" \o last'.consecutivo \o ".json"
                    IN /\ r.JSONGenerated = r.Valid
                       /\ r.Valid => /\ "JSONFile" \in DOMAIN r
                                     /\ r.JSONFile = name
                                     /\ name \in DOMAIN files'
                                     /\ files'[name].complete
                       /\ ~r.Valid => /\ "JSONFile" \notin DOMAIN r
                                      /\ files' = files
               /\ files' # files
                    => /\ last'.invoked
                       /\ last'.is_valid
                       /\ ~has_rejections(results'[last'.file_type]) ]_vars

\* a valid response that names its export file, next to an export of
\* another key
C7_Witness ==
    /\ Returned
    /\ Response.Valid = TRUE
    /\ Response.JSONGenerated = TRUE
    /\ Response.JSONFile \in DOMAIN files
    /\ Cardinality(DOMAIN files) = 2

(***************************************************************************)
(* C8: process never raises: every call ends with a response returned to   *)
(* the caller.                                                             *)
(***************************************************************************)
C8_NeverRaises ==
    last.op = "process" => last.raised = FALSE /\ Len(last.response) = 1

(***************************************************************************)
(* C9: a storage failure of the record fetch or of the beneficiary count   *)
(* lookup is caught inside validate: one Rejection with the query-error    *)
(* code of the type is appended, it is the last outcome of the call        *)
(* (nothing is checked after it), and validate returns (False, []).        *)
(***************************************************************************)
QueryErrorCode(file_type) ==
    CASE file_type = "AF" -> "ERR_AF_002"
      [] file_type = "US" -> "ERR_US_002"
      [] file_type = "AC" -> "ERR_AC_004"
      [] file_type = "AP" -> "ERR_AP_003"
      [] file_type = "AU" -> "ERR_AU_003"
      [] file_type = "AH" -> "ERR_AH_004"
      [] file_type = "AN" -> "ERR_AN_004"
      [] file_type = "AM" -> "ERR_AM_004"
      [] file_type = "AT" -> "ERR_AT_003"

\* the fetch of the last call failed
FetchFailed == last.invoked /\ last.fault = "read_sql"

\* the beneficiary count lookup of the last call failed
CountFailed == last.invoked /\ last.fault = "count"

C9_StorageFailureCaught ==
    FetchFailed \/ CountFailed
        => /\ last.raised = FALSE
           /\ last.is_valid = FALSE
           /\ last.records = <<>>
           /\ Produced # <<>>
           /\ Produced[Len(Produced)].result_type = REJECTION
           /\ Produced[Len(Produced)].code = QueryErrorCode(last.file_type)
           /\ Cardinality({i \in DOMAIN Produced :
                              Produced[i].code = QueryErrorCode(last.file_type)}) = 1
           /\ FetchFailed => Len(Produced) = 1

\* the count lookup failed after the field checks had appended an outcome
C9_Witness ==
    /\ CountFailed
    /\ Len(Produced) >= 2
    /\ Returned

(***************************************************************************)
(* C10: for AC, AP, AU, AH, AN, AM and AT, a fetched record whose          *)
(* numDocumentoIdentificacion matches no row of Usuarios gets the          *)
(* beneficiary-not-found Rejection of the type and validate returns False; *)
(* AF and US issue no lookup.  Stated for calls without storage failure.   *)
(***************************************************************************)
BeneficiaryCode(file_type) ==
    CASE file_type = "AC" -> "ERR_AC_003"
      [] file_type = "AP" -> "ERR_AP_002"
      [] file_type = "AU" -> "ERR_AU_002"
      [] file_type = "AH" -> "ERR_AH_003"
      [] file_type = "AN" -> "ERR_AN_003"
      [] file_type = "AM" -> "ERR_AM_003"
      [] file_type = "AT" -> "ERR_AT_002"
      [] OTHER -> "none"

\* the last call fetched a record whose beneficiary is not in Usuarios
BeneficiaryMissing ==
    /\ FoundRecord
    /\ last.file_type \notin {"AF", "US"}
    /\ last.fault \notin {"read_sql", "count"}
    /\ count_sql(Usuarios, "numDocumentoIdentificacion", Stored[1].numDocumentoIdentificacion) = 0

C10_BeneficiaryCrossReference ==
    /\ BeneficiaryMissing
        => /\ last.is_valid = FALSE
           /\ \E i \in DOMAIN Produced :
                 /\ Produced[i].result_type = REJECTION
                 /\ Produced[i].code = BeneficiaryCode(last.file_type)
    /\ last.invoked /\ last.file_type \in {"AF", "US"} => last.reads = 1

(***************************************************************************)
(* Vocabulary of the per-validator properties                              *)
(***************************************************************************)
\* the last call ran the validator of file_type on a fetched record
Validated(file_type) == FoundRecord /\ last.file_type = file_type

\* the record the validator of the last call judged (df.iloc[0])
Record == Stored[1]

\* the outcomes with the given code produced during the last call
ProducedWith(code) == {i \in DOMAIN Produced : Produced[i].code = code}

\* an outcome of the given class and code was produced during the last call
Appended(result_type, code) ==
    \E i \in ProducedWith(code) : Produced[i].result_type = result_type

(***************************************************************************)
(* C11 as stated: Consultation, conceptoRecaudo = "01" and codConsulta not *)
(* one of "890501" and "890601": the Rejection ERR_AC_002 is appended and  *)
(* the response has Valid = false.                                         *)
(***************************************************************************)
C11_CopayRejected_AsStated ==
    ( /\ Validated("AC")
      /\ Record.conceptoRecaudo = "01"
      /\ Record.codConsulta \notin {"890501", "890601"} )
        => /\ Appended(REJECTION, "ERR_AC_002")
           /\ Returned /\ Response.Valid = FALSE

(***************************************************************************)
(* C11 amended: Consultation, conceptoRecaudo = "01" and codConsulta       *)
(* non-empty and not one of "890501" and "890601": the Rejection           *)
(* ERR_AC_002 is appended and the response has Valid = false.  (With an    *)
(* empty codConsulta the copay rule is skipped; the response is invalid    *)
(* through ERR_codConsulta_001.)                                           *)
(***************************************************************************)
C11_CopayRejected ==
    ( /\ Validated("AC")
      /\ Record.conceptoRecaudo = "01"
      /\ truthy(Record.codConsulta)
      /\ Record.codConsulta \notin {"890501", "890601"} )
        => /\ Appended(REJECTION, "ERR_AC_002")
           /\ Returned /\ Response.Valid = FALSE

\* codConsulta "999999" with copay "01" was validated and rejected
C11_Witness ==
    /\ Validated("AC")
    /\ Record.conceptoRecaudo = "01"
    /\ Record.codConsulta = "999999"
    /\ Appended(REJECTION, "ERR_AC_002")
    /\ Returned /\ Response.Valid = FALSE

(***************************************************************************)
(* C12: Consultation, codConsulta "890501" or "890601" with                *)
(* conceptoRecaudo = "01": the Notification INFO_AC_001 is appended, no    *)
(* ERR_AC_002 is appended, and the copay rule does not make validate       *)
(* return False: when INFO_AC_001 is all the call produced, validate       *)
(* returns True.                                                           *)
(***************************************************************************)
C12_CopayAllowed ==
    ( /\ Validated("AC")
      /\ Record.codConsulta \in {"890501", "890601"}
      /\ Record.conceptoRecaudo = "01" )
        => /\ Appended(NOTIFICATION, "INFO_AC_001")
           /\ ProducedWith("ERR_AC_002") = {}
           /\ (\A i \in DOMAIN Produced : Produced[i].code = "INFO_AC_001")
                 => last.is_valid = TRUE

\* the only outcome of the call is INFO_AC_001 and validate returned True
C12_Witness ==
    /\ Validated("AC")
    /\ Record.codConsulta = "890501"
    /\ Record.conceptoRecaudo = "01"
    /\ Len(Produced) = 1
    /\ Produced[1].code = "INFO_AC_001"
    /\ last.is_valid = TRUE

(***************************************************************************)
(* C13: Hospitalization with fechaIngreso and fechaEgreso both present and *)
(* well-formed: when fechaEgreso is strictly earlier than fechaIngreso the *)
(* Rejection ERR_AH_002 is appended and validate returns False; when it is *)
(* equal or later, ERR_AH_002 is not appended.                             *)
(***************************************************************************)
C13_DischargeBeforeAdmission ==
    ( /\ Validated("AH")
      /\ strptime(Record.fechaIngreso) # <<>>
      /\ strptime(Record.fechaEgreso) # <<>> )
        => IF strptime(Record.fechaEgreso)[1] < strptime(Record.fechaIngreso)[1]
           THEN Appended(REJECTION, "ERR_AH_002") /\ last.is_valid = FALSE
           ELSE ProducedWith("ERR_AH_002") = {}

\* admission 2024-01-10 08:00:00, discharge 2024-01-05 08:00:00 was rejected
C13_Witness ==
    /\ Validated("AH")
    /\ Record.fechaIngreso = "2024-01-10 08:00:00"
    /\ Record.fechaEgreso = "2024-01-05 08:00:00"
    /\ Appended(REJECTION, "ERR_AH_002")
    /\ last.is_valid = FALSE

(***************************************************************************)
(* C14: Newborn: whenever sexoRecienNacido is not exactly "M" or "F" the   *)
(* Rejection ERR_AN_002 is appended and validate returns False, whether    *)
(* the string check on the field passed or failed, and next to the         *)
(* Rejection of that check when it failed.                                 *)
(***************************************************************************)
C14_NewbornSex ==
    ( /\ Validated("AN")
      /\ Record.sexoRecienNacido \notin {"M", "F"} )
        => /\ Appended(REJECTION, "ERR_AN_002")
           /\ Cardinality(ProducedWith("ERR_AN_002")) = 1
           /\ last.is_valid = FALSE
           /\ (Record.sexoRecienNacido = None \/ strip(Record.sexoRecienNacido) = "")
                 => Appended(REJECTION, "ERR_sexoRecienNacido_001")
           /\ (truthy(Record.sexoRecienNacido) /\ Len(Record.sexoRecienNacido) > 1)
                 => Appended(REJECTION, "ERR_sexoRecienNacido_002")

\* the string check failed on an absent value and ERR_AN_002 was appended
\* as well
C14_Witness ==
    /\ Validated("AN")
    /\ Record.sexoRecienNacido = None
    /\ Appended(REJECTION, "ERR_sexoRecienNacido_001")
    /\ Appended(REJECTION, "ERR_AN_002")
    /\ last.is_valid = FALSE

(***************************************************************************)
(* C15: Medication: a nomTecnologiaSalud containing "magistral" in any     *)
(* letter case appends the Notification INFO_AM_001; WARN_AM_002 is        *)
(* appended exactly when, in addition, concentracionMedicamento contains a *)
(* decimal point; neither is a Rejection and neither changes what validate *)
(* returns: a call that produced nothing but these two returns True.       *)
(***************************************************************************)
C15_Magistral ==
    Validated("AM") =>
        LET magistral == Record.nomTecnologiaSalud \in {"Formula MAGISTRAL", "crema magistral"}
            decimal == Record.concentracionMedicamento \in {"0.5", "2.5"}
        IN /\ magistral => Cardinality(ProducedWith("INFO_AM_001")) = 1
           /\ Cardinality(ProducedWith("WARN_AM_002")) = (IF magistral /\ decimal THEN 1 ELSE 0)
           /\ \A i \in ProducedWith("INFO_AM_001") \cup ProducedWith("WARN_AM_002") :
                 Produced[i].result_type = NOTIFICATION
           /\ (\A i \in DOMAIN Produced : Produced[i].code \in {"INFO_AM_001", "WARN_AM_002"})
                 => last.is_valid = TRUE

\* a magistral name with a decimal concentration: both Notifications were
\* appended and validate returned True
C15_Witness ==
    /\ Validated("AM")
    /\ Record.nomTecnologiaSalud = "crema magistral"
    /\ Record.concentracionMedicamento = "0.5"
    /\ Len(Produced) = 2
    /\ Produced[1].code = "INFO_AM_001"
    /\ Produced[2].code = "WARN_AM_002"
    /\ last.is_valid = TRUE

(***************************************************************************)
(* Reading an export file back                                             *)
(***************************************************************************)
\* the value a JSON token of the file stands for: null is None, a quoted
\* string is its text, a number is itself
json_value(col, token) ==
    IF col \in NumericColumns THEN token
    ELSE IF token = "null" THEN None
    ELSE SubSeq(token, 2, Len(token) - 1)

\* the rows a written document stands for
json_load(doc) ==
    [i \in DOMAIN doc |-> [col \in DOMAIN doc[i] |-> json_value(col, doc[i][col])]]

(***************************************************************************)
(* C16: whenever process exports (Valid = true), the records written to    *)
(* the export file are, field for field and in the same order, the         *)
(* records the validator fetched for that type and key in that call.       *)
(***************************************************************************)
C16_ExportRoundTrip ==
    (Returned /\ Response.Valid = TRUE)
        => /\ Response.JSONGenerated = TRUE
           /\ Response.JSONFile \in DOMAIN files
           /\ files[Response.JSONFile].complete
           /\ json_load(files[Response.JSONFile].doc) = Stored
           /\ last.records = Stored

\* two rows under one key were exported, in table order, a NULL among
\* their fields
C16_Witness ==
    /\ Returned
    /\ Response.Valid = TRUE
    /\ last.file_type = "AF"
    /\ Len(Stored) = 2
    /\ Len(files[Response.JSONFile].doc) = 2
    /\ files[Response.JSONFile].doc[1].numFactura = "\"F1\""
    /\ files[Response.JSONFile].doc[2].numFactura = "\"F2\""
    /\ files[Response.JSONFile].doc[2].numNota = "null"

(***************************************************************************)
(* The rule primitives on their own.  A validator object is constructed    *)
(* and its primitives are called directly, in any order, with arguments    *)
(* drawn from the sets below; `last` records the call: its arguments, the  *)
(* ledger it found and the boolean it returned.                            *)
(***************************************************************************)
\* the validator whose primitives are called
Validator == "AC"

StringValues == {None, "", "  ", "1", "A", "123456", "ABCDEF"}
MaxLengths == {1, 6}
Regexes == {None, "^[0-9]+$"}
CodeValues == {None, "", "890501", "999999"}
CatalogNames == {"CUPS", "NOPE"}
DateValues == {None, "", "  ", "2024-01-05 08:00:00", "2024-01-10"}
NumberValues == {<<>>, <<0>>, <<5>>}
MinValues == {<<>>, <<1>>}
MaxValues == {<<>>, <<3>>}

InitPrim ==
    /\ results = [t \in FileTypes |-> <<>>]
    /\ files = <<>>
    /\ ncalls = 0
    /\ last = [op |-> "none", ledger |-> <<>>, ret |-> TRUE]
    /\ DatabaseSearcherApp_init

\* the bookkeeping shared by the four calls
called(op, args, r) ==
    /\ ncalls < MaxCalls
    /\ ncalls' = ncalls + 1
    /\ last' = [op |-> op, args |-> args, ledger |-> results[Validator], ret |-> r.ret]
    /\ results' = [results EXCEPT ![Validator] = r.results]
    /\ UNCHANGED files
    /\ UNCHANGED window_vars

call_validate_string(value, max_length, required, regex) ==
    called("validate_string",
           [value |-> value, field |-> "codConsulta", max_length |-> max_length,
            required |-> required, regex |-> regex],
           validate_string(results[Validator], value, "codConsulta", max_length, required, regex))

call_validate_code(value, catalog) ==
    called("validate_code",
           [value |-> value, field |-> "codConsulta", catalog |-> catalog],
           validate_code(results[Validator], value, "codConsulta", catalog))

call_validate_date(value, required) ==
    called("validate_date",
           [value |-> value, field |-> "fechaIngreso", required |-> required],
           validate_date(results[Validator], value, "fechaIngreso", required))

call_validate_number(value, min_value, max_value) ==
    called("validate_number",
           [value |-> value, field |-> "cantidadOS", min_value |-> min_value,
            max_value |-> max_value],
           validate_number(results[Validator], value, "cantidadOS", min_value, max_value))

NextPrim ==
    \/ \E value \in StringValues : \E max_length \in MaxLengths :
       \E required \in BOOLEAN : \E regex \in Regexes :
           call_validate_string(value, max_length, required, regex)
    \/ \E value \in CodeValues : \E catalog \in CatalogNames :
           call_validate_code(value, catalog)
    \/ \E value \in DateValues : \E required \in BOOLEAN :
           call_validate_date(value, required)
    \/ \E value \in NumberValues : \E min_value \in MinValues : \E max_value \in MaxValues :
           call_validate_number(value, min_value, max_value)

SpecPrim == InitPrim /\ [][NextPrim]_vars

\* a primitive has been called
PrimitiveCalled == last.op \in {"validate_string", "validate_code", "validate_date", "validate_number"}

\* the ledger of the validator after the last primitive call
Ledger == results[Validator]

\* the outcomes the last primitive call appended (what follows the ledger it
\* found)
AppendedByCall == SubSeq(Ledger, Len(last.ledger) + 1, Len(Ledger))

\* the last primitive call left the ledger it found in place and appended
\* exactly these codes, returning ret
Outcome(codes, ret) ==
    /\ SubSeq(Ledger, 1, Len(last.ledger)) = last.ledger
    /\ Len(Ledger) = Len(last.ledger) + Len(codes)
    /\ \A i \in DOMAIN codes : AppendedByCall[i].code = codes[i]
    /\ last.ret = ret

(***************************************************************************)
(* C17: each call of a rule primitive appends at most one outcome to the   *)
(* ledger; validate_string checks required, then length against           *)
(* max_length, then pattern, in that order, and the first failing check    *)
(* appends its outcome and returns False, the later checks not being run.  *)
(***************************************************************************)
C17_PrimitiveShortCircuit ==
    PrimitiveCalled =>
        /\ Len(Ledger) <= Len(last.ledger) + 1
        /\ SubSeq(Ledger, 1, Len(last.ledger)) = last.ledger
        /\ last.op = "validate_string" =>
              LET a == last.args
                  present == a.value \notin {None, ""}
                  fails_required == a.required /\ a.value \in {None, "", "  "}
                  fails_length == present /\ Len(a.value) > a.max_length
                  fails_pattern == present /\ a.regex = "^[0-9]+$" /\ a.value \notin {"1", "123456"}
              IN IF fails_required THEN Outcome(<<"ERR_codConsulta_001">>, FALSE)
                 ELSE IF fails_length THEN Outcome(<<"ERR_codConsulta_002">>, FALSE)
                 ELSE IF fails_pattern THEN Outcome(<<"ERR_codConsulta_003">>, FALSE)
                 ELSE Outcome(<<>>, TRUE)

\* a value both too long and not matching the pattern got the length
\* outcome alone
C17_Witness ==
    /\ last.op = "validate_string"
    /\ last.args.value = "ABCDEF"
    /\ last.args.max_length = 1
    /\ last.args.regex = "^[0-9]+$"
    /\ Len(last.ledger) = 1
    /\ Outcome(<<"ERR_codConsulta_002">>, FALSE)

(***************************************************************************)
(* C18: validate_code(value, field, catalog): a non-empty value that is    *)
(* not a member of the named catalog appends exactly one outcome, of class *)
(* Notification, and returns False; an empty value or a member appends     *)
(* nothing and returns True.                                               *)
(***************************************************************************)
C18_CodeIsAdvisory ==
    last.op = "validate_code" =>
        LET a == last.args
            member == a.catalog = "CUPS" /\ a.value \in {"890501", "890601"}
        IN IF a.value \notin {None, ""} /\ ~member
           THEN /\ Outcome(<<"WARN_codConsulta_001">>, FALSE)
                /\ AppendedByCall[1].result_type = NOTIFICATION
           ELSE Outcome(<<>>, TRUE)

\* a code outside the catalog was flagged by one Notification
C18_Witness ==
    /\ last.op = "validate_code"
    /\ last.args.value = "999999"
    /\ last.args.catalog = "CUPS"
    /\ Outcome(<<"WARN_codConsulta_001">>, FALSE)
    /\ AppendedByCall[1].result_type = NOTIFICATION

(***************************************************************************)
(* C19: for every validator and every record, validate returns True only   *)
(* if no Rejection was appended to the ledger during that call: a True     *)
(* return together with a Rejection logged in the same call is             *)
(* unreachable.                                                            *)
(***************************************************************************)
C19_TrueMeansNoRejection ==
    (last.op = "process" /\ last.invoked /\ last.is_valid = TRUE)
        => \A i \in DOMAIN Produced : Produced[i].result_type # REJECTION

\* validate returned True on a call that did append an outcome, a
\* Notification
C19_Witness ==
    /\ last.op = "process"
    /\ last.invoked
    /\ last.is_valid = TRUE
    /\ Len(Produced) >= 1
    /\ \A i \in DOMAIN Produced : Produced[i].result_type = NOTIFICATION

(***************************************************************************)
(* The phases of a validate call, read off the outcomes it appended        *)
(***************************************************************************)
\* an outcome of a rule primitive: a field-level check (ERR_<field>_00n) or
\* a catalog lookup (WARN_<field>_001)
FieldOrCatalog(outcome) ==
    \/ outcome.code \in {"ERR_" \o outcome.field \o n :
                            n \in {"_001", "_002", "_003", "_004", "_005", "_006"}}
    \/ outcome.code = "WARN_" \o outcome.field \o "_001"

\* an outcome of a rule that relates two fields of the record, or a field
\* and a fixed set
CrossField(outcome) ==
    outcome.code \in {"INFO_AF_001", "INFO_AC_001", "ERR_AC_002", "INFO_AP_001",
                      "ERR_AH_002", "ERR_AN_002", "INFO_AM_001", "WARN_AM_002"}

(***************************************************************************)
(* C20: every validate call follows Fetching, then NotFound, or Found,     *)
(* FieldChecks, CrossFieldChecks, CrossReferenceCheck, and is then Done    *)
(* with its (bool, records) pair: among the outcomes of one call no        *)
(* field-level or catalog outcome comes after a cross-field outcome, and   *)
(* the beneficiary cross-reference outcome, when present, is the last one. *)
(***************************************************************************)
C20_PhaseOrder ==
    (last.op = "process" /\ last.invoked) =>
        /\ \A i, j \in DOMAIN Produced :
              (i < j /\ CrossField(Produced[i])) => ~FieldOrCatalog(Produced[j])
        /\ ProducedWith(BeneficiaryCode(last.file_type)) \subseteq {Len(Produced)}
        /\ FoundRecord \/ last.records = <<>>

(***************************************************************************)
(* C21: a validator's ledger is append-only across any sequence of process *)
(* calls: every step leaves each ledger as a prefix of what it becomes     *)
(* (nothing removed, reordered or modified, new outcomes at the end), and  *)
(* the ValidationResults of the response of a call lists the ledger of its *)
(* validator in that same order.                                           *)
(***************************************************************************)
C21_LedgerAppendOnly ==
    [][ /\ \A t \in FileTypes :
              /\ Len(results[t]) <= Len(results'[t])
              /\ SubSeq(results'[t], 1, Len(results[t])) = results[t]
        /\ (last'.op = "process" /\ last'.invoked /\ Len(last'.response) = 1) =>
              LET listed == last'.response[1].ValidationResults
                  ledger == results'[last'.file_type]
              IN /\ Len(listed) = Len(ledger)
                 /\ \A i \in DOMAIN ledger :
                       /\ listed[i].Codigo = ledger[i].code
                       /\ listed[i].Clase = ledger[i].result_type
      ]_vars

\* a second call on a type added a Rejection behind the Notification of the
\* first, and the response lists the two in that order
C21_Witness ==
    /\ Returned
    /\ last.invoked
    /\ last.before = 1
    /\ Len(results[last.file_type]) = 2
    /\ results[last.file_type][1].result_type = NOTIFICATION
    /\ results[last.file_type][2].result_type = REJECTION
    /\ Response.ValidationResults[1].Clase = NOTIFICATION
    /\ Response.ValidationResults[2].Clase = REJECTION

(***************************************************************************)
(* C22: Rejections are sticky per record type: once a process call has     *)
(* appended a Rejection to the validator of type T, every later            *)
(* process(T, key) returns Valid = false and JSONGenerated = false and     *)
(* writes no export file, even for a key whose record passes every check;  *)
(* calls on other types are unaffected: with no Rejection on the ledger of *)
(* its own type, a call that returns is valid exactly when validate        *)
(* returned True, whatever the ledgers of the other types hold.            *)
(***************************************************************************)
C22_StickyRejections ==
    [][ (last'.op = "process" /\ last'.invoked) =>
           IF \E i \in DOMAIN results[last'.file_type] :
                 results[last'.file_type][i].result_type = REJECTION
           THEN /\ Len(last'.response) = 1
                /\ last'.response[1].Valid = FALSE
                /\ last'.response[1].JSONGenerated = FALSE
                /\ files' = files
           ELSE Len(last'.response) = 1 =>
                   last'.response[1].Valid =
                      ( /\ last'.is_valid
                        /\ \A i \in DOMAIN results'[last'.file_type] :
                              results'[last'.file_type][i].result_type # REJECTION )
      ]_vars

\* a record that passes every check (validate returned True, nothing
\* appended) was refused because of a Rejection an earlier call left on the
\* ledger of its type
C22_Witness ==
    /\ Returned
    /\ last.invoked
    /\ last.is_valid = TRUE
    /\ Produced = <<>>
    /\ last.before >= 1
    /\ \E i \in 1..last.before : results[last.file_type][i].result_type = REJECTION
    /\ Response.Valid = FALSE
    /\ Response.JSONGenerated = FALSE
    /\ json_file(last.file_type, last.consecutivo) \notin DOMAIN files

(***************************************************************************)
(* C23: Hospitalization with fechaIngreso and fechaEgreso both non-empty   *)
(* and at least one of them not in the format YYYY-MM-DD HH:MM:SS:         *)
(* validate appends the date-format Rejection ERR_<field>_004 for that     *)
(* field, then the comparison of the dates fails and is reported as the    *)
(* query-error Rejection ERR_AH_004 although no storage access failed;     *)
(* ERR_AH_002 is not appended, the beneficiary lookup is not performed,    *)
(* and validate returns (False, []).                                       *)
(***************************************************************************)
C23_MalformedDateIsQueryError ==
    ( /\ Validated("AH")
      /\ Record.fechaIngreso # None /\ strip(Record.fechaIngreso) # ""
      /\ Record.fechaEgreso # None /\ strip(Record.fechaEgreso) # ""
      /\ strptime(Record.fechaIngreso) = <<>> \/ strptime(Record.fechaEgreso) = <<>> )
        => /\ strptime(Record.fechaIngreso) = <<>> => Appended(REJECTION, "ERR_fechaIngreso_004")
           /\ strptime(Record.fechaEgreso) = <<>> => Appended(REJECTION, "ERR_fechaEgreso_004")
           /\ last.fault = "none"
           /\ ProducedWith("ERR_AH_004") = {Len(Produced)}
           /\ Produced[Len(Produced)].result_type = REJECTION
           /\ ProducedWith("ERR_AH_002") = {}
           /\ ProducedWith("ERR_AH_003") = {}
           /\ last.reads = 1
           /\ last.is_valid = FALSE
           /\ last.records = <<>>

\* a date-only fechaEgreso on a record whose beneficiary is missing: the
\* format Rejection, then the query error, and no beneficiary lookup
C23_Witness ==
    /\ Validated("AH")
    /\ Record.fechaEgreso = "2024-01-10"
    /\ Record.numDocumentoIdentificacion = "U9"
    /\ Len(Produced) = 2
    /\ Produced[1].code = "ERR_fechaEgreso_004"
    /\ Produced[2].code = "ERR_AH_004"
    /\ last.reads = 1
    /\ last.is_valid = FALSE
    /\ last.records = <<>>

(***************************************************************************)
(* The browse window (src/Query_GUI_SQL-server.py).                        *)
(*   engine         self.engine: "None" or "engine"                        *)
(*   view_dropdown  the current text of the view/table dropdown            *)
(*   *_button       whether the button is enabled; a click on a disabled   *)
(*                  button reaches no handler                              *)
(*   current_page, has_more_data   the fields of the same name             *)
(*   debug_label    the text of the status label                           *)
(*   workers        the QueryWorker threads started whose finished or      *)
(*                  error signal has not been delivered, each with the     *)
(*                  page it was built for                                  *)
(*   aborted        the process was ended by Qt (see load_page)            *)
(* The handlers run on the GUI thread, one at a time; a worker runs        *)
(* beside them and its signal is delivered as one more handler.  Workers   *)
(* finish in any order.                                                    *)
(***************************************************************************)
\* self.page_size, scaled down from 1000 rows
page_size == 2

\* what inspector.get_view_names() / get_table_names() may return
ItemLists == {<<>>, <<"Consultas">>}

\* the row counts of a page the worker may fetch
RowCounts == 0..page_size

\* the sequence without its i-th element
without(seq, i) == SubSeq(seq, 1, i - 1) \o SubSeq(seq, i + 1, Len(seq))

\* load_items: the dropdown is cleared and refilled; its text is the first
\* item, or empty when there is none.  Without an engine nothing happens.
load_items(engine_now, items) ==
    IF engine_now = "None"
    THEN UNCHANGED <<view_dropdown, debug_label>>
    ELSE /\ view_dropdown' = (IF items = <<>> THEN "" ELSE items[1])
         /\ debug_label' = "Vistas/Tablas cargadas"

\* the connect button, which is always enabled.  outcome: "ok", or the call
\* that raised: create_engine (self.engine keeps its value) or inspect
\* (self.engine is already assigned).
test_connection(outcome, items) ==
    /\ ~aborted
    /\ IF outcome = "ok"
       THEN /\ engine' = "engine"
            /\ search_button' = TRUE
            /\ load_items("engine", items)
       ELSE /\ engine' = (IF outcome = "create_engine" THEN engine ELSE "engine")
            /\ debug_label' = "Error de conexion"
            /\ search_button' = FALSE
            /\ UNCHANGED view_dropdown
    /\ UNCHANGED <<prev_button, next_button, current_page, has_more_data, workers, aborted>>
    /\ UNCHANGED engine_vars

\* type_combo.currentIndexChanged -> load_items
type_changed(items) ==
    /\ ~aborted
    /\ load_items(engine, items)
    /\ UNCHANGED <<engine, search_button, prev_button, next_button, current_page,
                   has_more_data, workers, aborted>>
    /\ UNCHANGED engine_vars

\* the user picks or types another entry of the dropdown; load_columns
\* rebuilds the filters of a non-empty entry
load_columns(text) ==
    /\ ~aborted
    /\ text # view_dropdown
    /\ view_dropdown' = text
    /\ debug_label' = (IF text = "" THEN debug_label ELSE "Filtros actualizados")
    /\ UNCHANGED <<engine, search_button, prev_button, next_button, current_page,
                   has_more_data, workers, aborted>>
    /\ UNCHANGED engine_vars

\* load_page: the three buttons are disabled and a new QueryWorker is
\* started for the page.  self.worker is rebound: when the worker it named
\* is still running, its QThread loses its last reference, and Qt either
\* lets it finish or ends the process ("QThread: Destroyed while thread is
\* still running").
load_page(page) ==
    /\ Len(workers) < MaxWorkers
    /\ search_button' = FALSE
    /\ prev_button' = FALSE
    /\ next_button' = FALSE
    /\ debug_label' = "Cargando datos..."
    /\ current_page' = page
    /\ workers' = Append(workers, [page |-> page])
    /\ aborted' \in (IF workers = <<>> THEN {FALSE} ELSE {FALSE, TRUE})
    /\ UNCHANGED <<engine, view_dropdown, has_more_data>>

\* the search button
run_query ==
    /\ ~aborted
    /\ search_button
    /\ IF view_dropdown = ""
       THEN /\ debug_label' = "No se selecciono vista/tabla"
            /\ UNCHANGED <<engine, view_dropdown, search_button, prev_button, next_button,
                           current_page, has_more_data, workers, aborted>>
       ELSE load_page(1)
    /\ UNCHANGED engine_vars

\* the previous-page button
prev_page ==
    /\ ~aborted
    /\ prev_button
    /\ IF current_page > 1
       THEN load_page(current_page - 1)
       ELSE UNCHANGED window_vars
    /\ UNCHANGED engine_vars

\* the next-page button
next_page ==
    /\ ~aborted
    /\ next_button
    /\ current_page < MaxPage
    /\ IF has_more_data
       THEN load_page(current_page + 1)
       ELSE UNCHANGED window_vars
    /\ UNCHANGED engine_vars

\* the finished signal of worker i, carrying a page of n rows (its error
\* argument is always None)
on_query_finished(i, n) ==
    /\ ~aborted
    /\ i \in DOMAIN workers
    /\ workers' = without(workers, i)
    /\ IF n = 0
       THEN /\ debug_label' = "No se encontraron resultados"
            /\ has_more_data' = FALSE
       ELSE /\ debug_label' = "Insertadas filas"
            /\ has_more_data' = (n = page_size)
    /\ prev_button' = (current_page > 1)
    /\ next_button' = has_more_data'
    /\ search_button' = TRUE
    /\ UNCHANGED <<engine, view_dropdown, current_page, aborted>>
    /\ UNCHANGED engine_vars

\* the error signal of worker i
on_query_error(i) ==
    /\ ~aborted
    /\ i \in DOMAIN workers
    /\ workers' = without(workers, i)
    /\ debug_label' = "Error"
    /\ search_button' = TRUE
    /\ UNCHANGED <<engine, view_dropdown, prev_button, next_button, current_page,
                   has_more_data, aborted>>
    /\ UNCHANGED engine_vars

NextGUI ==
    \/ \E outcome \in {"ok", "create_engine", "inspect"} : \E items \in ItemLists :
           test_connection(outcome, items)
    \/ \E items \in ItemLists : type_changed(items)
    \/ \E text \in {"", "Consultas"} : load_columns(text)
    \/ run_query
    \/ prev_page
    \/ next_page
    \/ \E i \in 1..MaxWorkers : \E n \in RowCounts : on_query_finished(i, n)
    \/ \E i \in 1..MaxWorkers : on_query_error(i)

SpecGUI == Init /\ [][NextGUI]_vars

(***************************************************************************)
(* C24: in the browse window at most one QueryWorker is in flight at any   *)
(* time: no load_page starts between the start of a worker and the         *)
(* delivery of its finished or error signal, the search, previous and next *)
(* buttons being disabled for that whole interval; and current_page is at  *)
(* least 1 in every reachable state.                                       *)
(***************************************************************************)
C24_SingleWorker ==
    /\ Len(workers) <= 1
    /\ workers # <<>> => (~search_button /\ ~prev_button /\ ~next_button)
    /\ current_page >= 1
====
